---- MODULE Spec2Model ----
(***************************************************************************)
(* fast-compress: the layered codec LZORLE (src/compress.h), the codec     *)
(* factory createCompressor and the block benchmark driver main            *)
(* (src/main.cpp).                                                         *)
(*                                                                         *)
(* Two specifications share the variables:                                 *)
(*   Spec        one LZORLE instance driven through compress/decompress;   *)
(*   DriverSpec  one run of main.                                          *)
(* Buffers are sequences of bytes; C offsets are 0-based, so the byte at   *)
(* offset i of a buffer b is b[i + 1].                                     *)
(***************************************************************************)
EXTENDS Integers, Sequences, FiniteSets, TLC

\* ------------------------------------------------------------------ bounds
\* number of constant-byte segments the dictionary pass's output is built of
MaxSegs == 2
\* largest file, in whole pages (a remainder below one page may follow)
MaxFilePages == 3
\* largest block size, in pages (argv[2])
MaxBlockPages == 2
\* largest iteration count (argv[3])
MaxIter == 2

\* ------------------------------------------------------- program constants
\* the run counter's cap in rleCompress (run_length < 255)
kMaxRun == 255
\* static constexpr size_t kPageSize = 4096
kPageSize == 4096

\* values of an unsigned char
ToUChar(x) == x % 256

\* ------------------------------------------------------------ input space
\* byte values the buffers are built of
Bytes == {0, 255}
\* lengths of the constant-byte segments: adjacent segments of one byte merge
\* into runs of 2, 46, 90, 256, 300, 510, 765, ...
SegLens == {1, 45, 255}
\* source lengths handed to LZORLE::compress
SrcLens == {0, 1, 700}
\* what a read outside the initialised bytes may deliver: <<byte, count>>
Garbage == {<<0, 0>>, <<0, 2>>, <<255, 2>>}

Segment == Bytes \X SegLens
SegSeqs == UNION {[1..n -> Segment] : n \in 0..MaxSegs}

RECURSIVE Expand(_)
\* the byte sequence a sequence of <<byte, length>> segments stands for
Expand(segs) ==
  IF segs = <<>> THEN <<>>
  ELSE [k \in 1..segs[1][2] |-> segs[1][1]] \o Expand(Tail(segs))

RECURSIVE SegTotal(_)
SegTotal(segs) == IF segs = <<>> THEN 0 ELSE segs[1][2] + SegTotal(Tail(segs))

\* --------------------------------------------------- the dictionary pass
\* lzo1x_1_11_compress is an external primitive.  Its contract: the output
\* for src_len input bytes is at most src_len + src_len/16 + 64 + 3 bytes
\* long, it is written at dst without any capacity argument, and
\* lzo1x_decompress of exactly those bytes returns the input.
LzoWorstCase(src_len) == src_len + (src_len \div 16) + 64 + 3

\* ------------------------------------------------------------- variables
VARIABLES
  \* ---- LZORLE
  phase,                \* where the codec instance's caller stands
  src,                  \* compress: the source bytes
  dst_len,              \* compress: capacity of dst
  intermediate,         \* the dictionary pass's output, as written at dst
  max_write,            \* number of bytes of dst's address range written so far
  rle_compressed_data,  \* compress: the local vector
  dst,                  \* bytes of the destination window after compress
  ret,                  \* compress's return value
  d_src_len,            \* decompress: src_len
  rle_read,             \* decompress: final value of i in rleDecompress
  rle_decompressed_data,\* decompress: the local vector
  out,                  \* decompress: bytes written to its dst
  \* ---- main
  pc, cfg, size, origin, bytes_read, shuffle_n, compressor,
  compressed_size, stored_len, total_compressed, it, bid,
  ncompress, ndecompress, last_call

codecVars == <<phase, src, dst_len, intermediate, max_write, rle_compressed_data,
               dst, ret, d_src_len, rle_read, rle_decompressed_data, out>>
driverVars == <<pc, cfg, size, origin, bytes_read, shuffle_n, compressor,
                compressed_size, stored_len, total_compressed, it, bid,
                ncompress, ndecompress, last_call>>
vars == <<codecVars, driverVars>>

\* ------------------------------------------------------------ run length
\* RunContinues with the cap tested a step late (run_length <= 255)
RunContinuesLateCap(input, input_len, i, current_byte, n) ==
  /\ i + n < input_len
  /\ input[i + n + 1] = current_byte
  /\ n <= kMaxRun

\* the inner while of rleCompress, entered at offset i with run_length = 1:
\* its condition when run_length has reached n (and i has reached i + n - 1)
RunContinues(input, input_len, i, current_byte, n) ==
  /\ i + n < input_len
  /\ input[i + n + 1] = current_byte
  /\ n < kMaxRun

\* run_length when that while stops: the first n its condition fails for
\* (i has then advanced by n - 1)
RunScan(input, input_len, i, current_byte) ==
  CHOOSE n \in 1..(input_len - i) :
    /\ ~RunContinues(input, input_len, i, current_byte, n)
    /\ \A m \in 1..(n - 1) : RunContinues(input, input_len, i, current_byte, m)

\* EmitPair with the two push_back calls in the other order
EmitPairSwapped(current_byte, run_length) == <<ToUChar(run_length), current_byte>>

\* the pair rleCompress pushes for a run
EmitPair(current_byte, run_length) == <<current_byte, ToUChar(run_length)>>

RECURSIVE rleCompressLoop(_, _, _, _)
rleCompressLoop(input, input_len, i, output) ==
  IF i < input_len
  THEN LET current_byte == input[i + 1]
           run_length == RunScan(input, input_len, i, current_byte)
       IN rleCompressLoop(input, input_len, i + (run_length - 1) + 1,
                          output \o EmitPair(current_byte, run_length))
  ELSE output

rleCompress(input, input_len) == rleCompressLoop(input, input_len, 0, <<>>)

\* input[idx]; outside the initialised bytes the read delivers garbage
\* (even offsets are read as byte_value, odd ones as run_length)
ReadAt(input, idx, garbage) ==
  IF idx < Len(input) THEN input[idx + 1] ELSE garbage[(idx % 2) + 1]

RECURSIVE rleDecompressLoop(_, _, _, _, _)
\* [output, i] when the while loop of rleDecompress ends
rleDecompressLoop(input, input_len, i, output, garbage) ==
  IF i < input_len
  THEN LET current_byte == ReadAt(input, i, garbage)
           run_length == ReadAt(input, i + 1, garbage)
       IN rleDecompressLoop(input, input_len, i + 2,
                            output \o [j \in 1..run_length |-> current_byte],
                            garbage)
  ELSE [output |-> output, i |-> i]

rleDecompress(input, input_len, garbage) ==
  rleDecompressLoop(input, input_len, 0, <<>>, garbage)

\* ------------------------------------------------------- LZORLE, the codec
\* the sources: one buffer of each length in SrcLens
SrcInputs == {[k \in 1..n |-> ToUChar(k * 37)] : n \in SrcLens}

\* destination capacities tried for a source of src_len bytes
Capacities(src_len) == {0, src_len, 2 * src_len, 2 * LzoWorstCase(src_len)}

Min(a, b) == IF a < b THEN a ELSE b
Max(a, b) == IF a > b THEN a ELSE b

\* what lzo1x_decompress may hand back for bytes no compressor produced
LzoGarbageOut == {<<>>, <<0>>, <<255>>}

\* the driver's variables while a codec instance alone is exercised
DriverIdle ==
  /\ pc = "off" /\ cfg = <<>> /\ size = 0 /\ origin = <<>> /\ bytes_read = 0
  /\ shuffle_n = 0 /\ compressor = "none" /\ compressed_size = <<>>
  /\ stored_len = <<>> /\ total_compressed = 0 /\ it = 0 /\ bid = 0
  /\ ncompress = 0 /\ ndecompress = 0 /\ last_call = <<>>

CodecIdle ==
  /\ phase = "idle" /\ src = <<>> /\ dst_len = 0 /\ intermediate = <<>>
  /\ max_write = 0 /\ rle_compressed_data = <<>> /\ dst = <<>> /\ ret = 0
  /\ d_src_len = 0 /\ rle_read = 0 /\ rle_decompressed_data = <<>> /\ out = <<>>

Init == CodecIdle /\ DriverIdle

\* LZORLE keeps nothing between calls (wrkmem_ is scratch), so a later
\* compress starts from what the first one starts from: one suffices
Callable == phase = "idle"

\* step 3's test: the run-length output does not fit the destination
RleOverflows(rle_size, capacity) == rle_size > capacity

\* LZORLE::compress(dst, dst_len = capacity, src = s, src_len = Len(s)), the
\* dictionary pass producing the bytes I
LzoRleCompress(s, capacity, I) ==
  /\ Callable
  /\ Len(I) <= LzoWorstCase(Len(s))
  /\ src' = s
  /\ dst_len' = capacity
  \* step 1: the dictionary pass writes its output at dst
  /\ intermediate' = I
  /\ UNCHANGED <<d_src_len, rle_read, rle_decompressed_data, out>>
  /\ \/ \* step 1 wrote past dst + dst_len and the process died of it
        /\ Len(intermediate') > capacity
        /\ phase' = "crashed"
        /\ max_write' = Len(intermediate')
        /\ rle_compressed_data' = <<>>
        /\ dst' = SubSeq(intermediate', 1, capacity)
        /\ ret' = 0
     \/ \* step 2: the run-length pass over dst[0, compressed_size)
        /\ rle_compressed_data' = rleCompress(intermediate', Len(intermediate'))
        /\ \/ \* step 3: fatal overflow error, exit(EXIT_FAILURE)
              /\ RleOverflows(Len(rle_compressed_data'), capacity)
              /\ phase' = "overflow_exit"
              /\ max_write' = Len(intermediate')
              /\ dst' = SubSeq(intermediate', 1, Min(Len(intermediate'), capacity))
              /\ ret' = 0
           \/ \* step 4: copy over the start of dst and return
              /\ ~RleOverflows(Len(rle_compressed_data'), capacity)
              /\ phase' = "compressed"
              /\ max_write' = Max(Len(intermediate'), Len(rle_compressed_data'))
              /\ dst' = rle_compressed_data' \o
                          SubSeq(intermediate', Len(rle_compressed_data') + 1,
                                 Min(Len(intermediate'), capacity))
              /\ ret' = Len(rle_compressed_data')

Compress ==
  \E s \in SrcInputs : \E capacity \in Capacities(Len(s)) : \E segs \in SegSeqs :
    /\ SegTotal(segs) <= LzoWorstCase(Len(s))
    /\ LzoRleCompress(s, capacity, Expand(segs))
    /\ UNCHANGED driverVars

\* LZORLE::decompress(dst, dst_len, src = the window compress filled,
\* src_len = n); garbage is what reads outside the window's initialised
\* bytes deliver
LzoRleDecompress(n, garbage) ==
  /\ phase \in {"compressed", "decompressed"}
  /\ LET r == rleDecompress(dst, n, garbage)
     IN /\ d_src_len' = n
        /\ rle_read' = r.i
        /\ rle_decompressed_data' = r.output
        /\ \/ \* the dictionary decoder is given what its compressor produced
              /\ r.output = intermediate
              /\ phase' = "decompressed"
              /\ out' = src
           \/ \* anything else: LZO_E_* (fatal), a crash, or garbage accepted
              /\ r.output # intermediate
              /\ \/ phase' = "lzo_error_exit" /\ out' = <<>>
                 \/ phase' = "lzo_crashed" /\ out' = <<>>
                 \/ phase' = "decompressed" /\ out' \in LzoGarbageOut
  /\ UNCHANGED <<src, dst_len, intermediate, max_write, rle_compressed_data, dst, ret>>

\* the exact length compress returned
DecompressExact ==
  /\ \E garbage \in Garbage : LzoRleDecompress(ret, garbage)
  /\ UNCHANGED driverVars

\* a length compress did not return: one byte short or one byte long (odd)
DecompressMalformed ==
  /\ \E n \in {ret - 1, ret + 1} : \E garbage \in Garbage :
       n >= 0 /\ LzoRleDecompress(n, garbage)
  /\ UNCHANGED driverVars

Next == Compress \/ DecompressExact \/ DecompressMalformed

Spec == Init /\ [][Next]_vars

\* ------------------------------------------------------------ the factory
\* the names argv[5] is drawn from: those createCompressor compares with,
\* the enumerated identifier deflate842, and a name nobody knows
AlgorithmNames ==
  {"lz4hc", "lz4", "lzo", "lzo-rle", "zstd", "842", "deflate842", "unknown-name"}

\* createCompressor taking the enumerated identifier for the last codec too
createCompressorAlias(algorithm) ==
  IF algorithm = "lz4hc" THEN "LZ4HC"
  ELSE IF algorithm = "lz4" THEN "LZ4"
  ELSE IF algorithm = "lzo" THEN "LZO"
  ELSE IF algorithm = "lzo-rle" THEN "LZORLE"
  ELSE IF algorithm = "zstd" THEN "ZSTD"
  ELSE IF algorithm \in {"842", "deflate842"} THEN "Deflate842"
  ELSE "throw"

\* createCompressor: the class constructed for a name, "throw" for
\* throw std::invalid_argument
createCompressor(algorithm) ==
  IF algorithm = "lz4hc" THEN "LZ4HC"
  ELSE IF algorithm = "lz4" THEN "LZ4"
  ELSE IF algorithm = "lzo" THEN "LZO"
  ELSE IF algorithm = "lzo-rle" THEN "LZORLE"
  ELSE IF algorithm = "zstd" THEN "ZSTD"
  ELSE IF algorithm = "842" THEN "Deflate842"
  ELSE "throw"

\* ------------------------------------------------------------------ main
\* argv: file size stands for the file at argv[1]
FileSizes == {p * kPageSize + r : p \in 0..MaxFilePages, r \in {0, 100}}
Configs ==
  [file_size : FileSizes, pages : 1..MaxBlockPages, niteration : 0..MaxIter,
   page_shuffle : BOOLEAN, algorithm : AlgorithmNames]

\* size_t block_size = std::stoul(argv[2]) * kPageSize
BlockSize(c) == c.pages * kPageSize

\* the load without the truncation
TruncatedSizeNone(file_size, block_size) == file_size

\* size = size / block_size * block_size
TruncatedSize(file_size, block_size) == (file_size \div block_size) * block_size

\* size_t nblock = size / block_size
NBlock == size \div BlockSize(cfg)

\* size_t comp_block_size = block_size * 2
CompBlockSize(block_size) == block_size * 2

\* number of MemPage elements between the two iterators given to std::shuffle
ShuffleCount(sz) == (sz - kPageSize) \div kPageSize

\* the orders std::shuffle can leave n elements in
Perms(n) == {f \in [1..n -> 1..n] : \A a, b \in 1..n : f[a] = f[b] => a = b}

\* the table read at a fixed index
SizeEntryFirst(table, b) == table[1]

\* compressed_size[bid]
SizeEntry(table, b) == table[b + 1]

\* lengths a codec may return for a destination window of capacity bytes
CompressResults(capacity) == {1, capacity}

NoCall == [op |-> "none", it |-> 0, bid |-> 0, src_off |-> 0, src_len |-> 0,
           dst_off |-> 0, dst_len |-> 0, res |-> 0]

DriverInit ==
  /\ CodecIdle
  /\ pc = "start" /\ cfg \in Configs
  /\ size = 0 /\ origin = <<>> /\ bytes_read = 0 /\ shuffle_n = 0
  /\ compressor = "none" /\ compressed_size = <<>> /\ stored_len = <<>>
  /\ total_compressed = 0 /\ it = 0 /\ bid = 0
  /\ ncompress = 0 /\ ndecompress = 0 /\ last_call = NoCall

\* if(!fin.good()) exit(EXIT_FAILURE)
OpenFail ==
  /\ pc = "start"
  /\ pc' = "exit_open"
  /\ UNCHANGED <<codecVars, cfg, size, origin, bytes_read, shuffle_n, compressor,
                 compressed_size, stored_len, total_compressed, it, bid,
                 ncompress, ndecompress, last_call>>

\* file_size, truncation, aligned_alloc and fin.read; a page of origin is
\* named by the index of the file page it was read from
Load ==
  /\ pc = "start"
  /\ size' = TruncatedSize(cfg.file_size, BlockSize(cfg))
  /\ origin' = [p \in 1..(size' \div kPageSize) |-> p]
  /\ bytes_read' = size'
  /\ pc' = "loaded"
  /\ UNCHANGED <<codecVars, cfg, shuffle_n, compressor, compressed_size, stored_len,
                 total_compressed, it, bid, ncompress, ndecompress, last_call>>

\* if(page_shuffle) std::shuffle(origin, origin + size - kPageSize)
Shuffle ==
  /\ pc = "loaded"
  /\ \/ /\ ~cfg.page_shuffle
        /\ pc' = "shuffled"
        /\ UNCHANGED <<origin, shuffle_n>>
     \/ /\ cfg.page_shuffle
        /\ ShuffleCount(size) >= 0
        /\ \E f \in Perms(ShuffleCount(size)) :
             origin' = [p \in 1..Len(origin) |->
                          IF p <= ShuffleCount(size) THEN origin[f[p]] ELSE origin[p]]
        /\ shuffle_n' = ShuffleCount(size)
        /\ pc' = "shuffled"
     \/ \* size = 0: the end iterator lies before the begin iterator
        \* (undefined): the run dies, or gets away with it
        /\ cfg.page_shuffle
        /\ ShuffleCount(size) < 0
        /\ pc' \in {"crashed", "shuffled"}
        /\ UNCHANGED <<origin, shuffle_n>>
  /\ UNCHANGED <<codecVars, cfg, size, bytes_read, compressor, compressed_size,
                 stored_len, total_compressed, it, bid, ncompress, ndecompress,
                 last_call>>

\* compressor = createCompressor(algorithm), then the allocations of
\* compressed and compressed_size (calloc) and the start of the first loop
CreateCompressor ==
  /\ pc = "shuffled"
  /\ \/ \* std::invalid_argument leaves main uncaught: std::terminate
        /\ createCompressor(cfg.algorithm) = "throw"
        /\ pc' = "terminated"
        /\ UNCHANGED <<compressor, compressed_size, stored_len>>
     \/ \* LZO::LZO(): lzo_init() != LZO_E_OK, exit(EXIT_FAILURE)
        /\ createCompressor(cfg.algorithm) = "LZO"
        /\ pc' = "exit_lzo_init"
        /\ UNCHANGED <<compressor, compressed_size, stored_len>>
     \/ /\ createCompressor(cfg.algorithm) # "throw"
        /\ compressor' = createCompressor(cfg.algorithm)
        /\ compressed_size' = [b \in 1..NBlock |-> 0]
        /\ stored_len' = [b \in 1..NBlock |-> 0]
        /\ pc' = "compressing"
  /\ UNCHANGED <<codecVars, cfg, size, origin, bytes_read, shuffle_n,
                 total_compressed, it, bid, ncompress, ndecompress, last_call>>

\* one pass of the inner compression loop's body
CompressBlock ==
  /\ pc = "compressing" /\ it < cfg.niteration /\ bid < NBlock
  /\ LET block_size == BlockSize(cfg)
         comp_block_size == CompBlockSize(block_size)
     IN \/ \E res \in CompressResults(comp_block_size) :
             /\ total_compressed' = total_compressed + res
             /\ compressed_size' = [compressed_size EXCEPT ![bid + 1] = res]
             /\ stored_len' = [stored_len EXCEPT ![bid + 1] = res]
             /\ last_call' = [op |-> "compress", it |-> it, bid |-> bid,
                              src_off |-> bid * block_size, src_len |-> block_size,
                              dst_off |-> bid * comp_block_size,
                              dst_len |-> comp_block_size, res |-> res]
             /\ ncompress' = ncompress + 1
             /\ bid' = bid + 1
             /\ pc' = pc
        \/ \* the codec ends the process: exit(EXIT_FAILURE)
           /\ pc' = "exit_codec"
           /\ UNCHANGED <<total_compressed, compressed_size, stored_len, last_call,
                          ncompress, bid>>
  /\ UNCHANGED <<codecVars, cfg, size, origin, bytes_read, shuffle_n, compressor,
                 it, ndecompress>>

\* the inner loop ends: i++
CompressNextIteration ==
  /\ pc = "compressing" /\ it < cfg.niteration /\ bid = NBlock
  /\ it' = it + 1 /\ bid' = 0
  /\ UNCHANGED <<codecVars, pc, cfg, size, origin, bytes_read, shuffle_n, compressor,
                 compressed_size, stored_len, total_compressed, ncompress,
                 ndecompress, last_call>>

\* the outer loop ends; metrics are printed and the second loop starts
CompressDone ==
  /\ pc = "compressing" /\ it = cfg.niteration
  /\ pc' = "decompressing" /\ it' = 0 /\ bid' = 0
  /\ UNCHANGED <<codecVars, cfg, size, origin, bytes_read, shuffle_n, compressor,
                 compressed_size, stored_len, total_compressed, ncompress,
                 ndecompress, last_call>>

\* one pass of the inner decompression loop's body
DecompressBlock ==
  /\ pc = "decompressing" /\ it < cfg.niteration /\ bid < NBlock
  /\ LET block_size == BlockSize(cfg)
         comp_block_size == CompBlockSize(block_size)
     IN \/ /\ last_call' = [op |-> "decompress", it |-> it, bid |-> bid,
                            src_off |-> bid * comp_block_size,
                            src_len |-> SizeEntry(compressed_size, bid),
                            dst_off |-> bid * block_size, dst_len |-> block_size,
                            res |-> block_size]
           /\ ndecompress' = ndecompress + 1
           /\ bid' = bid + 1
           /\ pc' = pc
        \/ /\ pc' = "exit_codec"
           /\ UNCHANGED <<last_call, ndecompress, bid>>
  /\ UNCHANGED <<codecVars, cfg, size, origin, bytes_read, shuffle_n, compressor,
                 compressed_size, stored_len, total_compressed, it, ncompress>>

DecompressNextIteration ==
  /\ pc = "decompressing" /\ it < cfg.niteration /\ bid = NBlock
  /\ it' = it + 1 /\ bid' = 0
  /\ UNCHANGED <<codecVars, pc, cfg, size, origin, bytes_read, shuffle_n, compressor,
                 compressed_size, stored_len, total_compressed, ncompress,
                 ndecompress, last_call>>

\* the outer loop ends; the buffers are freed and main returns 0
DecompressDone ==
  /\ pc = "decompressing" /\ it = cfg.niteration
  /\ pc' = "done"
  /\ UNCHANGED <<codecVars, cfg, size, origin, bytes_read, shuffle_n, compressor,
                 compressed_size, stored_len, total_compressed, it, bid, ncompress,
                 ndecompress, last_call>>

DriverNext ==
  \/ OpenFail \/ Load \/ Shuffle \/ CreateCompressor
  \/ CompressBlock \/ CompressNextIteration \/ CompressDone
  \/ DecompressBlock \/ DecompressNextIteration \/ DecompressDone

DriverSpec == DriverInit /\ [][DriverNext]_vars

\* =================================================================== claims
\* ------------------------------------------------ run-length specification
\* length of the maximal run of identical bytes that starts at position s
\* (1-based) of I: up to the first position holding another byte
MaximalRun(I, s) ==
  (CHOOSE e \in (s + 1)..(Len(I) + 1) :
     /\ e = Len(I) + 1 \/ I[e] # I[s]
     /\ \A k \in (s + 1)..(e - 1) : I[k] = I[s]) - s

\* the pairs a maximal run of n bytes b is to be encoded as: floor(n/255)
\* pairs of length 255, then one of length n mod 255 when that is not zero
PairsOfRun(b, n) ==
  [k \in 1..(2 * (n \div 255)) |-> IF k % 2 = 1 THEN b ELSE 255]
    \o (IF n % 255 # 0 THEN <<b, n % 255>> ELSE <<>>)

RECURSIVE ExpectedPairs(_, _)
\* the encoding of I from position s on, maximal run by maximal run
ExpectedPairs(I, s) ==
  IF s > Len(I) THEN <<>>
  ELSE PairsOfRun(I[s], MaximalRun(I, s)) \o ExpectedPairs(I, s + MaximalRun(I, s))

RECURSIVE RunsDecode(_, _)
\* decoding the pairs of each maximal run of I gives back that run
RunsDecode(I, s) ==
  \/ s > Len(I)
  \/ LET n == MaximalRun(I, s)
         pairs == PairsOfRun(I[s], n)
     IN /\ rleDecompress(pairs, Len(pairs), <<0, 0>>).output = [k \in 1..n |-> I[s]]
        /\ RunsDecode(I, s + n)

\* the run-length pass of compress has run
RleDone == phase \in {"overflow_exit", "compressed", "decompressed",
                      "lzo_error_exit", "lzo_crashed"}

\* C1: round trip of the layered codec.  Run-length decoding of the run-length
\* encoding of the dictionary pass's output I gives back I, reading exactly
\* the encoded bytes; and decompress, given the window compress filled and
\* the length it returned, hands the dictionary decoder I and reproduces the
\* source (the dictionary pass being lossless).
C1_RoundTrip ==
  /\ RleDone =>
       LET r == rleDecompress(rle_compressed_data, Len(rle_compressed_data), <<0, 0>>)
       IN r.output = intermediate /\ r.i = Len(rle_compressed_data)
  /\ (phase = "decompressed" /\ d_src_len = ret) =>
       /\ rle_decompressed_data = intermediate
       /\ out = src

\* a source of 700 bytes whose intermediate is one run of 300 bytes, beyond
\* the cap, went through compress and decompress
C1_Witness ==
  /\ phase = "decompressed" /\ d_src_len = ret
  /\ Len(src) = 700 /\ out = src
  /\ Len(intermediate) = 300 /\ intermediate[1] = intermediate[300]
  /\ ret = 4 /\ rle_decompressed_data = intermediate

\* C2 (as claimed): compress called with a destination capacity of twice the
\* source length never ends in the fatal overflow error and returns at most
\* that capacity.
C2_Original ==
  (phase # "idle" /\ dst_len = 2 * Len(src)) =>
     /\ phase # "overflow_exit"
     /\ ret <= 2 * Len(src)

\* C3 (as claimed): no step of compress writes a byte at an offset
\* >= dst_capacity, and a result that cannot fit ends in the fatal error
\* instead of a truncated return.
C3_Original ==
  /\ max_write <= dst_len
  /\ (RleDone /\ Len(rle_compressed_data) > dst_len) => phase = "overflow_exit"
  /\ phase = "compressed" => ret = Len(rle_compressed_data)

\* C4 (as claimed): decompress given an odd src_len ends in a decode error and
\* reads no byte at an index >= src_len.
C4_Original ==
  (d_src_len % 2 = 1) =>
     /\ phase = "lzo_error_exit"
     /\ rle_read <= d_src_len

\* C9: run-length cap.  Every emitted pair has 1 <= run_length <= 255; the
\* output is, maximal run by maximal run of n bytes, floor(n/255) pairs of
\* length 255 and then one pair of length n mod 255 when that is not zero;
\* and decoding the pairs of a run gives n copies of its byte.
C9_RunCap ==
  RleDone =>
    /\ Len(rle_compressed_data) % 2 = 0
    /\ \A k \in 1..(Len(rle_compressed_data) \div 2) :
         rle_compressed_data[2 * k] \in 1..255
    /\ rle_compressed_data = ExpectedPairs(intermediate, 1)
    /\ RunsDecode(intermediate, 1)

\* a run of 300 identical bytes was encoded as the two pairs 255 and 45
C9_Witness ==
  /\ RleDone
  /\ Len(intermediate) = 300 /\ MaximalRun(intermediate, 1) = 300
  /\ rle_compressed_data = <<0, 255, 0, 45>>

\* ----------------------------------------------------------------- driver
\* createCompressor has been called and has returned a codec
FactoryReturned == pc \in {"compressing", "decompressing", "done", "exit_codec"}

\* the six names of the enumerated identifier
ClaimedNames == {"lz4hc", "lz4", "lzo", "lzo-rle", "zstd", "deflate842"}

\* C5 (as claimed): createCompressor signals no configuration error for
\* lz4hc, lz4, lzo, lzo-rle, zstd and deflate842 and returns a constructed
\* codec for them, and constructs no codec for any other name.
C5_Original ==
  /\ cfg.algorithm \in ClaimedNames => pc # "terminated"
  /\ cfg.algorithm \notin ClaimedNames => compressor = "none"

\* the class each name of the code stands for
ClassOf ==
  [a \in {"lz4hc", "lz4", "lzo", "lzo-rle", "zstd", "842"} |->
     CASE a = "lz4hc" -> "LZ4HC" [] a = "lz4" -> "LZ4" [] a = "lzo" -> "LZO"
       [] a = "lzo-rle" -> "LZORLE" [] a = "zstd" -> "ZSTD" [] a = "842" -> "Deflate842"]

\* C5 (amended): createCompressor returns a constructed codec of the matching
\* class for each of the six names lz4hc, lz4, lzo, lzo-rle, zstd and 842
\* (for lzo unless lzo_init fails, which ends the process), and for every
\* other name, deflate842 included, it throws and constructs no codec.
C5_Factory ==
  /\ cfg.algorithm \in DOMAIN ClassOf =>
       /\ pc # "terminated"
       /\ FactoryReturned => compressor = ClassOf[cfg.algorithm]
       /\ pc = "exit_lzo_init" => cfg.algorithm = "lzo" /\ compressor = "none"
  /\ cfg.algorithm \notin DOMAIN ClassOf =>
       /\ compressor = "none"
       /\ ~FactoryReturned /\ pc # "exit_lzo_init"
  /\ pc = "terminated" => cfg.algorithm \notin DOMAIN ClassOf

\* the factory built a Deflate842 for the name 842 and the run went on
C5_Witness ==
  /\ cfg.algorithm = "842" /\ compressor = "Deflate842" /\ pc = "done"
  /\ ncompress > 0

\* C6: block truncation.  With S the file size and B the block size, exactly
\* floor(S/B)*B bytes are read into the buffer, every compress call of block
\* bid takes the source bytes [bid*B, (bid+1)*B) below floor(S/B)*B, and each
\* iteration processes exactly floor(S/B) blocks.
C6_BlockTruncation ==
  LET S == cfg.file_size
      B == BlockSize(cfg)
      nb == S \div B
  IN /\ bytes_read <= nb * B
     /\ pc \notin {"start", "exit_open"} =>
          /\ bytes_read = nb * B
          /\ Len(origin) * kPageSize = nb * B
     /\ last_call.op = "compress" =>
          /\ last_call.bid < nb
          /\ last_call.src_off = last_call.bid * B
          /\ last_call.src_off + last_call.src_len = (last_call.bid + 1) * B
          /\ last_call.src_off + last_call.src_len <= nb * B
     /\ pc = "compressing" => ncompress = it * nb + bid /\ bid <= nb
     /\ pc = "decompressing" => ndecompress = it * nb + bid /\ bid <= nb
     /\ pc \in {"decompressing", "done"} => ncompress = cfg.niteration * nb
     /\ pc = "done" => ndecompress = cfg.niteration * nb

\* a file of three blocks and 100 bytes more was run to the end in 3 blocks
\* per iteration
C6_Witness ==
  /\ pc = "done"
  /\ cfg.file_size = 3 * BlockSize(cfg) + 100
  /\ cfg.niteration = 2 /\ ncompress = 6 /\ ndecompress = 6
  /\ bytes_read = cfg.file_size - 100

\* C7: driver ordering and size bookkeeping.  No decompress call precedes the
\* end of all N compression iterations; within each pass the blocks are
\* visited in index order; every decompress call on block bid is passed the
\* length returned by the most recent compress call on that block, which is
\* the length of the data stored in its destination window; the size table
\* has one entry per block.
C7_Ordering ==
  /\ ndecompress > 0 =>
       /\ ncompress = cfg.niteration * NBlock
       /\ pc \in {"decompressing", "done", "exit_codec"}
  /\ pc = "compressing" => ndecompress = 0 /\ last_call.op # "decompress"
  /\ last_call.op = "compress" =>
       /\ last_call.bid = (ncompress - 1) % NBlock
       /\ last_call.it = (ncompress - 1) \div NBlock
  /\ last_call.op = "decompress" =>
       /\ last_call.bid = (ndecompress - 1) % NBlock
       /\ last_call.it = (ndecompress - 1) \div NBlock
       /\ last_call.src_len = stored_len[last_call.bid + 1]
       /\ last_call.src_off = last_call.bid * CompBlockSize(BlockSize(cfg))
  /\ FactoryReturned =>
       /\ Len(compressed_size) = NBlock
       /\ compressed_size = stored_len

\* the second block was decompressed with its own recorded length, which
\* differs from the first block's
C7_Witness ==
  /\ last_call.op = "decompress" /\ last_call.bid = 1 /\ last_call.it = 1
  /\ compressed_size[1] # compressed_size[2]
  /\ last_call.src_len = compressed_size[2]

\* C8 (as claimed): a run whose algorithm name nobody recognizes ends before
\* the file contents are read into the source buffer, before any shuffle and
\* before any buffer is populated.
C8_Original ==
  (pc = "terminated" /\ cfg.algorithm \notin (ClaimedNames \cup DOMAIN ClassOf)) =>
     /\ bytes_read = 0
     /\ origin = <<>>
     /\ shuffle_n = 0

\* the shuffle step is behind
Shuffled == pc \in {"shuffled", "terminated", "exit_lzo_init", "exit_codec",
                    "compressing", "decompressing", "done"}

\* C10 (as claimed): with the flag on, the buffer after the shuffle is a
\* permutation of its pages and every page position, the last one included,
\* is in the shuffled range; with the flag off the buffer is unchanged.
C10_Original ==
  Shuffled =>
    /\ {origin[p] : p \in 1..Len(origin)} = 1..Len(origin)
    /\ cfg.page_shuffle => shuffle_n = Len(origin)
    /\ ~cfg.page_shuffle => origin = [p \in 1..Len(origin) |-> p]

====
